---- MODULE Spec2Model ----
(***************************************************************************)
(* Model of the ROOK health-data backend (server.js, stored in the         *)
(* repository as prisma/migrations/20250930080926_init/migration.sql).     *)
(*                                                                         *)
(* The model covers the two Prisma tables (User, HealthData), the express  *)
(* handlers that read and write them, and the axios client rookApi that    *)
(* the handlers call.  Every handler is an async function: it runs up to   *)
(* its next await, and other requests run in between.  One action of the   *)
(* model is one such run-to-await segment of one request.                  *)
(***************************************************************************)
EXTENDS Integers, Sequences, FiniteSets, TLC

(***************************************************************************)
(* Bounds of the model.                                                    *)
(***************************************************************************)
NumProcs == 2        \* requests that can be in flight at the same time
MaxCalls == 2        \* requests accepted in one behaviour

Procs == 1..NumProcs

(***************************************************************************)
(* JavaScript values.  A value is a record tagged by its type; strings     *)
(* that the code matches against a pattern are kept as tuples of           *)
(* characters so that the match is computed.                               *)
(***************************************************************************)
Undef == [t |-> "undefined"]
Null == [t |-> "null"]
Num(x10) == [t |-> "number", x10 |-> x10]      \* the number x10 / 10
Str(chars) == [t |-> "string", s |-> chars]
Obj(fields) == [t |-> "object", f |-> fields]
Arr(items) == [t |-> "array", a |-> items]
NoFields == <<>>

\* ToBoolean of a JavaScript value, as `if (v)` and `!v` apply it.
Truthy(v) ==
  CASE v.t = "undefined" -> FALSE
    [] v.t = "null" -> FALSE
    [] v.t = "string" -> v.s # <<>>
    [] v.t = "number" -> v.x10 # 0
    [] OTHER -> TRUE

U1 == <<"u", "1">>
U2 == <<"u", "2">>
D1 == <<"2", "0", "2", "4", "-", "0", "1", "-", "0", "1">>
D2 == <<"2", "0", "2", "4", "-", "0", "6", "-", "0", "1">>

(***************************************************************************)
(* State.                                                                  *)
(***************************************************************************)
VARIABLES
  User,         \* table "User": user_id -> row, or NoRow
  HealthData,   \* table "HealthData": the rows in id order (id = index)
  pc,           \* per request slot: where its handler is suspended
  req,          \* per request slot: the request being served
  answer,       \* per request slot: what the provider answered its call with
  response,     \* per request slot: the handler's local `response`
  caught,       \* per request slot: the error its catch block caught
  res,          \* per request slot: what was sent on `res`
  calls,        \* number of requests accepted so far
  nUp,          \* per request slot: upstream calls issued by this request
  cached,       \* per request slot: the handler's local `cached`
  nWr,          \* per request slot: store writes issued by this request
  path          \* per request slot: the branch the handler took

vars == <<User, HealthData, pc, req, answer, response, cached, caught, res, calls, nUp, nWr, path>>

NoRow == [exists |-> FALSE]
NoReq == [op |-> "none"]
NotAsked == [status |-> -1, data |-> Undef]    \* the provider was not called
NoResponse == [status |-> 0, data |-> Undef]
NoRes == [status |-> 0, body |-> Undef]
NoError == [status |-> 0, message |-> ""]

(***************************************************************************)
(* express: what a handler sends.  res.json(b) sends b with the default    *)
(* status 200, res.status(s).json(b) sends it with status s, and express   *)
(* drops the body of a 204 or 304 answer.                                  *)
(***************************************************************************)
Send(status, body) ==
  [status |-> status, body |-> IF status \in {204, 304} THEN Undef ELSE body]

(***************************************************************************)
(* Errors a handler can catch.  `status` is error.response?.status, 0      *)
(* standing for undefined (no response attached to the error).             *)
(***************************************************************************)
AxiosStatusError(status) ==
  [status |-> status, message |-> "Request failed with status code " \o ToString(status)]
NetworkError == [status |-> 0, message |-> "Network Error"]
PrismaError == [status |-> 0, message |-> "Invalid prisma invocation"]
TypeError == [status |-> 0, message |-> "Cannot read properties of null"]

ErrorBody(error) == Obj([error |-> error.message])

\* variant: the status is read from the error itself, which has none
StatusAlways500(error) == 500

\* error.response?.status || 500
StatusOr500(error) == IF error.status # 0 THEN error.status ELSE 500

\* function handleNoContent(error, res)
handleNoContent(error) ==
  IF error.status = 204
    THEN Send(204, Undef)
    ELSE Send(StatusOr500(error), ErrorBody(error))

\* the catch blocks of POST /users/info and POST /users/:user_id/timezone
CatchSend(error) == Send(StatusOr500(error), ErrorBody(error))

(***************************************************************************)
(* rookApi: the axios instance.  It is created without validateStatus, so  *)
(* axios resolves the promise for a status in 200..299 and rejects it for  *)
(* every other status; a request that gets no answer rejects without a    *)
(* response.                                                               *)
(***************************************************************************)
Resolves(status) == status >= 200 /\ status < 300

NoReply == [status |-> 0, data |-> Undef]     \* the request got no answer

\* the error axios rejects with for a reply it does not resolve
AxiosError(reply) ==
  IF reply = NoReply THEN NetworkError ELSE AxiosStatusError(reply.status)

ScoreA == Obj([score |-> Num(820)])
ScoreB == Obj([score |-> Num(900)])
EmptyString == Str(<<>>)
EmptyObject == Obj(NoFields)
EmptyArray == Arr(<<>>)

\* bodies the provider can answer a processed_data read with
SnapshotBodies == {ScoreA, ScoreB, EmptyString, Null, EmptyObject, EmptyArray}

SnapshotReplies ==
  {[status |-> 200, data |-> d] : d \in SnapshotBodies}
    \cup {[status |-> 202, data |-> ScoreA], [status |-> 204, data |-> EmptyString]}
    \cup {[status |-> s, data |-> Undef] : s \in {400, 404}}
    \cup {NoReply}

\* the answers that carry a score, and the two ways the call fails
ScoreReplies ==
  {[status |-> 200, data |-> d] : d \in {ScoreA, ScoreB}}
    \cup {[status |-> 400, data |-> Undef], NoReply}

(***************************************************************************)
(* Table HealthData and the two Prisma calls the handlers make on it.      *)
(***************************************************************************)
\* the data_type each health route uses
DataType(route, type) ==
  CASE route = "physical_summary" -> "physical_summary"
    [] route = "physical_events" -> "physical_" \o type
    [] route = "sleep_summary" -> "sleep_summary"
    [] route = "body_summary" -> "body_summary"
    [] route = "body_events" -> "body_" \o type

\* the provider path each health route reads
ResourcePath(route, type) ==
  CASE route = "physical_summary" -> "/v2/processed_data/physical_health/summary"
    [] route = "physical_events" -> "/v2/processed_data/physical_health/events/" \o type
    [] route = "sleep_summary" -> "/v2/processed_data/sleep_health/summary"
    [] route = "body_summary" -> "/v2/processed_data/body_health/summary"
    [] route = "body_events" -> "/v2/processed_data/body_health/events/" \o type

\* variant: the lookup leaves the data_type out of its filter
WhereMatchesAnyType(row, user_id, data_type, date) ==
  /\ user_id = Undef \/ row.user_id = user_id
  /\ date = Undef \/ row.date = date

\* Prisma leaves a filter whose value is undefined out of the WHERE clause.
WhereMatches(row, user_id, data_type, date) ==
  /\ user_id = Undef \/ row.user_id = user_id
  /\ row.data_type = data_type
  /\ date = Undef \/ row.date = date

\* prisma.healthData.findFirst: the matching row of lowest id, or Null
FindFirst(rows, user_id, data_type, date) ==
  LET hits == {i \in 1..Len(rows) : WhereMatches(rows[i], user_id, data_type, date)}
  IN IF hits = {} THEN Null
     ELSE rows[CHOOSE i \in hits : \A j \in hits : i <= j]

\* prisma.healthData.create rejects a row whose required column is undefined
CreateAccepts(user_id, date) == user_id.t = "string" /\ date.t = "string"

NewRow(rows, user_id, data_type, date, data) ==
  [t |-> "object", id |-> Len(rows) + 1, user_id |-> user_id,
   data_type |-> data_type, date |-> date, data |-> data]

(***************************************************************************)
(* Requests.                                                               *)
(***************************************************************************)
SnapshotReq(route, type, user_id, date) ==
  [op |-> "getSnapshot", route |-> route, type |-> type, user_id |-> user_id, date |-> date]

\* the health-data requests of the model: every route for one user and one
\* date, and one route with the user or the date changed or left out
SnapshotRequests ==
  {SnapshotReq(r, "", Str(U1), Str(D1)) :
     r \in {"physical_summary", "sleep_summary", "body_summary"}}
  \cup {SnapshotReq("physical_events", ty, Str(U1), Str(D1)) : ty \in {"steps", "summary"}}
  \cup {SnapshotReq("body_events", "weight", Str(U1), Str(D1))}
  \cup {SnapshotReq("physical_events", "steps", u, Str(D1)) : u \in {Str(U2), Undef}}
  \cup {SnapshotReq("physical_events", "steps", Str(U1), d) : d \in {Str(D2), Undef}}

\* a request is accepted into the lowest slot that is not serving one
Free(p) ==
  /\ pc[p] \in {"idle", "done"}
  /\ \A o \in Procs : o < p => pc[o] \notin {"idle", "done"}
  /\ calls < MaxCalls

Accept(p, q) ==
  /\ req' = [req EXCEPT ![p] = q]
  /\ calls' = calls + 1
  /\ response' = [response EXCEPT ![p] = NoResponse]
  /\ answer' = [answer EXCEPT ![p] = NotAsked]

\* the handler of slot p sends r from its try block and ends
Finish(p, r, branch) ==
  /\ res' = [res EXCEPT ![p] = r]
  /\ pc' = [pc EXCEPT ![p] = "done"]
  /\ path' = [path EXCEPT ![p] = branch]
  /\ caught' = [caught EXCEPT ![p] = NoError]

\* variant: the catch block logs the error and sends nothing
FailSilent(p, e, r, branch) ==
  /\ res' = [res EXCEPT ![p] = NoRes]
  /\ pc' = [pc EXCEPT ![p] = "done"]
  /\ path' = [path EXCEPT ![p] = branch]
  /\ caught' = [caught EXCEPT ![p] = e]

\* the handler of slot p catches e, sends r from its catch block and ends
Fail(p, e, r, branch) ==
  /\ res' = [res EXCEPT ![p] = r]
  /\ pc' = [pc EXCEPT ![p] = "done"]
  /\ path' = [path EXCEPT ![p] = branch]
  /\ caught' = [caught EXCEPT ![p] = e]

\* the handler of slot p suspends at its next await
Await(p, at, branch) ==
  /\ res' = [res EXCEPT ![p] = NoRes]
  /\ pc' = [pc EXCEPT ![p] = at]
  /\ path' = [path EXCEPT ![p] = branch]
  /\ caught' = [caught EXCEPT ![p] = NoError]

(***************************************************************************)
(* GET /health/<category>/summary and GET /health/<category>/events/:type  *)
(***************************************************************************)
\* variant: the handler fetches from the provider whatever the lookup found
SnapshotFindFirstRefetch(p, q, found) ==
  /\ Accept(p, q)
  /\ cached' = [cached EXCEPT ![p] = found]
  /\ nUp' = [nUp EXCEPT ![p] = 0]
  /\ nWr' = [nWr EXCEPT ![p] = 0]
  /\ UNCHANGED <<User, HealthData>>
  /\ Await(p, "upstream", "miss")

\* the request arrives and prisma.healthData.findFirst answers
SnapshotFindFirst(p, q, found) ==
  /\ Accept(p, q)
  /\ cached' = [cached EXCEPT ![p] = found]
  /\ nUp' = [nUp EXCEPT ![p] = 0]
  /\ nWr' = [nWr EXCEPT ![p] = 0]
  /\ UNCHANGED <<User, HealthData>>
  /\ IF Truthy(found)
       THEN Finish(p, Send(200, found.data), "hit")
       ELSE Await(p, "upstream", "miss")

GetSnapshot(p, requests) ==
  /\ Free(p)
  /\ \E q \in requests :
       SnapshotFindFirst(p, q,
         FindFirst(HealthData, q.user_id, DataType(q.route, q.type), q.date))

\* prisma.healthData.findFirst throws
GetSnapshotStoreError(p, requests) ==
  /\ Free(p)
  /\ \E q \in requests :
       /\ Accept(p, q)
       /\ cached' = [cached EXCEPT ![p] = Null]
       /\ nUp' = [nUp EXCEPT ![p] = 0]
       /\ nWr' = [nWr EXCEPT ![p] = 0]
       /\ UNCHANGED <<User, HealthData>>
       /\ Fail(p, PrismaError, handleNoContent(PrismaError), "store_error")

\* variant: the handler calls the provider again when its call is rejected
SnapshotUpstreamReplyRetry(p, reply) ==
  /\ nUp' = [nUp EXCEPT ![p] = @ + 1]
  /\ answer' = [answer EXCEPT ![p] = reply]
  /\ UNCHANGED <<User, HealthData, req, calls, cached, nWr>>
  /\ IF ~Resolves(reply.status)
       THEN /\ Await(p, "upstream", "miss")
            /\ UNCHANGED response
       ELSE /\ response' = [response EXCEPT ![p] = reply]
            /\ IF Truthy(reply.data)
                 THEN Await(p, "create", "miss")
                 ELSE Finish(p, Send(200, reply.data), "empty")

\* rookApi.get answers, and the handler runs to its next await or its end
SnapshotUpstreamReply(p, reply) ==
  /\ nUp' = [nUp EXCEPT ![p] = @ + 1]
  /\ answer' = [answer EXCEPT ![p] = reply]
  /\ UNCHANGED <<User, HealthData, req, calls, cached, nWr>>
  /\ IF ~Resolves(reply.status)
       THEN /\ Fail(p, AxiosError(reply), handleNoContent(AxiosError(reply)), "upstream_error")
            /\ UNCHANGED response
       ELSE /\ response' = [response EXCEPT ![p] = reply]
            /\ IF Truthy(reply.data)
                 THEN Await(p, "create", "miss")
                 ELSE Finish(p, Send(200, reply.data), "empty")

SnapshotUpstream(p, replies) ==
  /\ pc[p] = "upstream"
  /\ req[p].op = "getSnapshot"
  /\ \E reply \in replies : SnapshotUpstreamReply(p, reply)

\* variant: the create leaves the table alone when the key is stored already
SnapshotCreateIfAbsent(p) ==
  /\ pc[p] = "create"
  /\ req[p].op = "getSnapshot"
  /\ CreateAccepts(req[p].user_id, req[p].date)
  /\ HealthData' =
       IF FindFirst(HealthData, req[p].user_id, DataType(req[p].route, req[p].type),
                    req[p].date) = Null
         THEN Append(HealthData,
                NewRow(HealthData, req[p].user_id, DataType(req[p].route, req[p].type),
                       req[p].date, response[p].data))
         ELSE HealthData
  /\ nWr' = [nWr EXCEPT ![p] = @ + 1]
  /\ Finish(p, Send(200, response[p].data), "created")
  /\ UNCHANGED <<User, req, answer, response, calls, cached, nUp>>

\* prisma.healthData.create answers
SnapshotCreate(p) ==
  /\ pc[p] = "create"
  /\ req[p].op = "getSnapshot"
  /\ CreateAccepts(req[p].user_id, req[p].date)
  /\ HealthData' = Append(HealthData,
       NewRow(HealthData, req[p].user_id, DataType(req[p].route, req[p].type),
              req[p].date, response[p].data))
  /\ nWr' = [nWr EXCEPT ![p] = @ + 1]
  /\ Finish(p, Send(200, response[p].data), "created")
  /\ UNCHANGED <<User, req, answer, response, calls, cached, nUp>>

\* variant: the handler catches the failure of the write and answers with
\* the provider's data all the same
SnapshotCreateErrorSwallowed(p) ==
  /\ pc[p] = "create"
  /\ req[p].op = "getSnapshot"
  /\ nWr' = [nWr EXCEPT ![p] = @ + 1]
  /\ Fail(p, PrismaError, Send(200, response[p].data), "store_error")
  /\ UNCHANGED <<User, HealthData, req, answer, response, calls, cached, nUp>>

\* prisma.healthData.create throws
SnapshotCreateError(p) ==
  /\ pc[p] = "create"
  /\ req[p].op = "getSnapshot"
  /\ nWr' = [nWr EXCEPT ![p] = @ + 1]
  /\ Fail(p, PrismaError, handleNoContent(PrismaError), "store_error")
  /\ UNCHANGED <<User, HealthData, req, answer, response, calls, cached, nUp>>

(***************************************************************************)
(* Table User and the Prisma calls the handlers make on it.  user_id is    *)
(* the primary key, so the table holds at most one row per user_id.        *)
(***************************************************************************)
UserIds == {U1, U2}

Columns == {"date_of_birth", "height_cm", "weight_kg", "bmi", "sex", "time_zone", "offset"}

\* o.k for a JavaScript value o that is not null or undefined
Get(o, k) == IF o.t = "object" /\ k \in DOMAIN o.f THEN o.f[k] ELSE Undef

\* o?.k
GetOpt(o, k) == IF o.t \in {"undefined", "null"} THEN Undef ELSE Get(o, k)

\* the type Prisma accepts for a column of the User table (a nullable column
\* also takes null, and undefined means "not given")
ColumnAccepts(c, v) ==
  \/ v.t \in {"undefined", "null"}
  \/ c \in {"date_of_birth", "sex", "time_zone", "offset"} /\ v.t = "string"
  \/ c = "height_cm" /\ v.t = "number" /\ v.x10 % 10 = 0
  \/ c \in {"weight_kg", "bmi"} /\ v.t = "number"

DataAccepted(data) == \A c \in Columns : ColumnAccepts(c, Get(data, c))

\* variant: the create object carries no user_id, and the row is stored
\* without one
CreateRowWithoutId(user_id, create) ==
  [t |-> "object", user_id |-> Get(create, "user_id"),
   col |-> [c \in Columns |-> IF Get(create, c) = Undef THEN Null ELSE Get(create, c)]]

\* the row an upsert inserts: a column not given is NULL
CreateRow(user_id, create) ==
  [t |-> "object", user_id |-> Str(user_id),
   col |-> [c \in Columns |-> IF Get(create, c) = Undef THEN Null ELSE Get(create, c)]]

\* variant: the update writes the whole record, NULL for a column not given
UpdateRowReplace(row, update) ==
  [row EXCEPT !.col = [c \in Columns |->
     IF Get(update, c) = Undef THEN Null ELSE Get(update, c)]]

\* the row an upsert leaves behind when it updates: a column not given stays
UpdateRow(row, update) ==
  [row EXCEPT !.col = [c \in Columns |->
     IF Get(update, c) = Undef THEN row.col[c] ELSE Get(update, c)]]

\* variant: the upsert leaves a stored row as it is
UpsertInsertOnly(table, user_id, update, create) ==
  [table EXCEPT ![user_id] =
     IF table[user_id] = NoRow THEN CreateRow(user_id, create)
     ELSE table[user_id]]

\* prisma.user.upsert({ where: { user_id }, update, create })
Upsert(table, user_id, update, create) ==
  [table EXCEPT ![user_id] =
     IF table[user_id] = NoRow THEN CreateRow(user_id, create)
     ELSE UpdateRow(table[user_id], update)]

\* prisma.user.findUnique({ where: { user_id } })
FindUnique(table, user_id) == IF table[user_id] = NoRow THEN Null ELSE table[user_id]

(***************************************************************************)
(* userSchema: the Joi schema of POST /users/info.                         *)
(***************************************************************************)
Digits == {"0", "1", "2", "3", "4", "5", "6", "7", "8", "9"}
Letters ==
  {"a", "b", "c", "d", "e", "f", "g", "h", "i", "j", "k", "l", "m",
   "n", "o", "p", "q", "r", "s", "t", "u", "v", "w", "x", "y", "z",
   "A", "B", "C", "D", "E", "F", "G", "H", "I", "J", "K", "L", "M",
   "N", "O", "P", "Q", "R", "S", "T", "U", "V", "W", "X", "Y", "Z"}

MaxUserIdLen == 50

\* /^[a-zA-Z0-9-]{1,50}$/
MatchesUserId(s) ==
  /\ Len(s) >= 1
  /\ Len(s) <= MaxUserIdLen
  /\ \A i \in 1..Len(s) : s[i] \in Letters \cup Digits \cup {"-"}

\* /^\d{4}-\d{2}-\d{2}$/
MatchesDate(s) ==
  /\ Len(s) = 10
  /\ \A i \in {1, 2, 3, 4, 6, 7, 9, 10} : s[i] \in Digits
  /\ s[5] = "-"
  /\ s[8] = "-"

\* Joi's isoDate, for the two forms the model uses: a calendar date, alone or
\* followed by "T" and a time
IsIsoDate(s) ==
  /\ Len(s) >= 10
  /\ MatchesDate(SubSeq(s, 1, 10))
  /\ Len(s) = 10 \/ s[11] = "T"

\* Joi.string(): a string, and not the empty one
JoiString(v) == v.t = "string" /\ v.s # <<>>

\* Joi.number(): a number, or (Joi converts by default) a string of digits
JoiNumber(v) ==
  \/ v.t = "number"
  \/ v.t = "string" /\ v.s # <<>> /\ \A i \in 1..Len(v.s) : v.s[i] \in Digits

\* Joi.number().integer()
JoiInteger(v) == JoiNumber(v) /\ (v.t = "number" => v.x10 % 10 = 0)

Male == <<"m", "a", "l", "e">>
Female == <<"f", "e", "m", "a", "l", "e">>

SchemaKeys ==
  <<"datetime", "user_id", "date_of_birth_string", "height_cm_int",
    "weight_kg_float", "bmi_float", "sex_string">>

\* variant: the schema takes any string for sex_string
KeyValidAnySex(k, v) ==
  CASE k = "datetime" -> JoiString(v) /\ IsIsoDate(v.s)
    [] k = "user_id" -> JoiString(v) /\ MatchesUserId(v.s)
    [] k = "date_of_birth_string" -> v = Undef \/ (JoiString(v) /\ MatchesDate(v.s))
    [] k = "height_cm_int" -> v = Undef \/ JoiInteger(v)
    [] k = "weight_kg_float" -> v = Undef \/ JoiNumber(v)
    [] k = "bmi_float" -> v = Undef \/ JoiNumber(v)
    [] k = "sex_string" -> v = Undef \/ JoiString(v)

KeyValid(k, v) ==
  CASE k = "datetime" -> JoiString(v) /\ IsIsoDate(v.s)
    [] k = "user_id" -> JoiString(v) /\ MatchesUserId(v.s)
    [] k = "date_of_birth_string" -> v = Undef \/ (JoiString(v) /\ MatchesDate(v.s))
    [] k = "height_cm_int" -> v = Undef \/ JoiInteger(v)
    [] k = "weight_kg_float" -> v = Undef \/ JoiNumber(v)
    [] k = "bmi_float" -> v = Undef \/ JoiNumber(v)
    [] k = "sex_string" -> v = Undef \/ (JoiString(v) /\ v.s \in {Female, Male})

\* userSchema.validate(req.body): the first error, or none.  A key the schema
\* does not name is an error too.
userSchemaValidate(body) ==
  LET bad == {i \in 1..Len(SchemaKeys) : ~KeyValid(SchemaKeys[i], Get(body, SchemaKeys[i]))}
      unknown == DOMAIN body.f \ {SchemaKeys[i] : i \in 1..Len(SchemaKeys)}
  IN IF bad # {}
       THEN [error |-> TRUE,
             message |-> "\"" \o SchemaKeys[CHOOSE i \in bad : \A j \in bad : i <= j]
                          \o "\" is not valid"]
     ELSE IF unknown # {}
       THEN [error |-> TRUE, message |-> "\"" \o (CHOOSE k \in unknown : TRUE) \o "\" is not allowed"]
     ELSE [error |-> FALSE, message |-> ""]

(***************************************************************************)
(* POST /users/info                                                        *)
(***************************************************************************)
DT == D1 \o <<"T", "0", "0", ":", "0", "0", ":", "0", "0", "Z">>
DOB == <<"1", "9", "9", "0", "-", "0", "1", "-", "0", "1">>

Required(user_id) == [datetime |-> Str(DT), user_id |-> Str(user_id)]

\* f @@ g, for records
Merge(f, g) == [k \in DOMAIN f \cup DOMAIN g |-> IF k \in DOMAIN f THEN f[k] ELSE g[k]]

\* the sample of smoke.js
SampleUserInfo ==
  Obj(Merge(Required(U1),
    [date_of_birth_string |-> Str(DOB), height_cm_int |-> Num(1750),
     weight_kg_float |-> Num(705), bmi_float |-> Num(230), sex_string |-> Str(Male)]))

\* bodies that pass the schema
ValidBodies ==
  {SampleUserInfo,
   Obj(Required(U1)),
   Obj(Merge(Required(U1), [height_cm_int |-> Num(1800), sex_string |-> Str(Male)])),
   Obj(Merge(Required(U2), [height_cm_int |-> Num(1800), sex_string |-> Str(Female)])),
   Obj(Merge(Required(U1), [weight_kg_float |-> Num(750)])),
   Obj(Merge(Required(U1), [height_cm_int |-> Str(<<"1", "8", "0">>)]))}

\* bodies that fail it, one for each way
InvalidBodies ==
  {Obj([datetime |-> Str(DT)]),
   Obj([user_id |-> Str(U1)]),
   Obj(Merge([user_id |-> Str(<<"u", " ", "1">>)], Required(U1))),
   Obj(Merge([user_id |-> Num(10)], Required(U1))),
   Obj(Merge([datetime |-> Str(<<"n", "o", "w">>)], Required(U1))),
   Obj(Merge(Required(U1), [height_cm_int |-> Num(1755)])),
   Obj(Merge(Required(U1), [height_cm_int |-> Str(<<"t", "a", "l", "l">>)])),
   Obj(Merge(Required(U1), [height_cm_int |-> Null])),
   Obj(Merge(Required(U1), [weight_kg_float |-> Str(<<"x">>)])),
   Obj(Merge(Required(U1), [bmi_float |-> Str(<<"x">>)])),
   Obj(Merge(Required(U1),
     [date_of_birth_string |-> Str(<<"0", "1", "/", "0", "1", "/", "1", "9", "9", "0">>)])),
   Obj(Merge(Required(U1), [sex_string |-> Str(<<"o", "t", "h", "e", "r">>)])),
   Obj(Merge(Required(U1), [age |-> Num(300)]))}

ProfileBodies == ValidBodies \cup InvalidBodies

AckBody == Obj([status |-> Num(10)])

\* answers of the provider to a POST
PostReplies ==
  {[status |-> 200, data |-> AckBody], [status |-> 201, data |-> AckBody],
   [status |-> 400, data |-> Undef], NoReply}

\* the `update` object of the upsert in POST /users/info
SubmitUpdate(body) ==
  Obj([date_of_birth |-> Get(body, "date_of_birth_string"),
       height_cm |-> Get(body, "height_cm_int"),
       weight_kg |-> Get(body, "weight_kg_float"),
       bmi |-> Get(body, "bmi_float"),
       sex |-> Get(body, "sex_string")])

\* its `create` object, without the user_id
SubmitCreate(body) ==
  Obj([date_of_birth |-> Get(body, "date_of_birth_string"),
       height_cm |-> Get(body, "height_cm_int"),
       weight_kg |-> Get(body, "weight_kg_float"),
       bmi |-> Get(body, "bmi_float"),
       sex |-> Get(body, "sex_string")])

StartCounters(p) ==
  /\ cached' = [cached EXCEPT ![p] = Null]
  /\ nUp' = [nUp EXCEPT ![p] = 0]
  /\ nWr' = [nWr EXCEPT ![p] = 0]

\* variant: the handler writes the store before it calls the provider
SubmitValidateThenWrite(p, body, v) ==
  /\ Accept(p, [op |-> "submitProfile", body |-> body])
  /\ StartCounters(p)
  /\ UNCHANGED <<User, HealthData>>
  /\ IF v.error
       THEN Finish(p, Send(422, Obj([error |-> v.message])), "invalid")
       ELSE Await(p, "upsert", "valid")

\* the request arrives and the validating middleware runs
SubmitValidate(p, body, v) ==
  /\ Accept(p, [op |-> "submitProfile", body |-> body])
  /\ StartCounters(p)
  /\ UNCHANGED <<User, HealthData>>
  /\ IF v.error
       THEN Finish(p, Send(422, Obj([error |-> v.message])), "invalid")
       ELSE Await(p, "upstream", "valid")

PostUsersInfo(p, bodies) ==
  /\ Free(p)
  /\ \E body \in bodies : SubmitValidate(p, body, userSchemaValidate(body))

\* variant: the handler goes on to the upsert whatever the provider answered
SubmitUpstreamReplyUnchecked(p, reply) ==
  /\ nUp' = [nUp EXCEPT ![p] = @ + 1]
  /\ answer' = [answer EXCEPT ![p] = reply]
  /\ UNCHANGED <<User, HealthData, req, calls, cached, nWr>>
  /\ response' = [response EXCEPT ![p] = reply]
  /\ Await(p, "upsert", "accepted")

\* rookApi.post('/api/v2/user-information') answers
SubmitUpstreamReply(p, reply) ==
  /\ nUp' = [nUp EXCEPT ![p] = @ + 1]
  /\ answer' = [answer EXCEPT ![p] = reply]
  /\ UNCHANGED <<User, HealthData, req, calls, cached, nWr>>
  /\ IF ~Resolves(reply.status)
       THEN /\ Fail(p, AxiosError(reply), CatchSend(AxiosError(reply)), "upstream_error")
            /\ UNCHANGED response
       ELSE /\ response' = [response EXCEPT ![p] = reply]
            /\ Await(p, "upsert", "accepted")

SubmitUpstream(p, replies) ==
  /\ pc[p] = "upstream"
  /\ req[p].op = "submitProfile"
  /\ \E reply \in replies : SubmitUpstreamReply(p, reply)

\* the table after the upsert of POST /users/info
SubmitWrite(table, body) ==
  Upsert(table, Get(body, "user_id").s, SubmitUpdate(body), SubmitCreate(body))

\* prisma.user.upsert answers
SubmitUpsert(p) ==
  /\ pc[p] = "upsert"
  /\ req[p].op = "submitProfile"
  /\ DataAccepted(SubmitUpdate(req[p].body))
  /\ User' = SubmitWrite(User, req[p].body)
  /\ nWr' = [nWr EXCEPT ![p] = @ + 1]
  /\ Finish(p, Send(response[p].status, response[p].data), "written")
  /\ UNCHANGED <<HealthData, req, answer, response, calls, cached, nUp>>

\* prisma.user.upsert throws
SubmitUpsertError(p) ==
  /\ pc[p] = "upsert"
  /\ req[p].op = "submitProfile"
  /\ nWr' = [nWr EXCEPT ![p] = @ + 1]
  /\ Fail(p, PrismaError, CatchSend(PrismaError), "store_error")
  /\ UNCHANGED <<User, HealthData, req, answer, response, calls, cached, nUp>>

(***************************************************************************)
(* POST /users/:user_id/timezone                                           *)
(***************************************************************************)
NewYork == <<"A", "m", "e", "r", "i", "c", "a", "/", "N", "e", "w", "_", "Y", "o", "r", "k">>
Minus5 == <<"-", "0", "5", ":", "0", "0">>
Utc == <<"U", "T", "C">>

TimeZoneReq(user_id, time_zone, offset) ==
  [op |-> "setTimeZone", user_id |-> user_id, time_zone |-> time_zone, offset |-> offset]

TimeZoneRequests ==
  {TimeZoneReq(u, Str(NewYork), Str(Minus5)) : u \in UserIds}
    \cup {TimeZoneReq(U1, Str(Utc), Undef), TimeZoneReq(U1, Undef, Undef)}

\* { time_zone, offset }, the `update` of the upsert and, with the user_id,
\* its `create`
TimeZoneData(q) == Obj([time_zone |-> q.time_zone, offset |-> q.offset])

PostTimezone(p, requests) ==
  /\ Free(p)
  /\ \E q \in requests :
       /\ Accept(p, q)
       /\ StartCounters(p)
       /\ Await(p, "upstream", "valid")
  /\ UNCHANGED <<User, HealthData>>

\* variant: the handler goes on to the upsert whatever the provider answered
TimezoneUpstreamReplyUnchecked(p, reply) ==
  /\ nUp' = [nUp EXCEPT ![p] = @ + 1]
  /\ answer' = [answer EXCEPT ![p] = reply]
  /\ UNCHANGED <<User, HealthData, req, calls, cached, nWr>>
  /\ response' = [response EXCEPT ![p] = reply]
  /\ Await(p, "upsert", "accepted")

\* rookApi.post(`/api/v1/user_id/${user_id}/time_zone`) answers
TimezoneUpstreamReply(p, reply) ==
  /\ nUp' = [nUp EXCEPT ![p] = @ + 1]
  /\ answer' = [answer EXCEPT ![p] = reply]
  /\ UNCHANGED <<User, HealthData, req, calls, cached, nWr>>
  /\ IF ~Resolves(reply.status)
       THEN /\ Fail(p, AxiosError(reply), CatchSend(AxiosError(reply)), "upstream_error")
            /\ UNCHANGED response
       ELSE /\ response' = [response EXCEPT ![p] = reply]
            /\ Await(p, "upsert", "accepted")

TimezoneUpstream(p, replies) ==
  /\ pc[p] = "upstream"
  /\ req[p].op = "setTimeZone"
  /\ \E reply \in replies : TimezoneUpstreamReply(p, reply)

\* variant: the upsert replaces the row by one holding the two fields only
TimezoneWriteReplace(table, q) ==
  [table EXCEPT ![q.user_id] = CreateRow(q.user_id, TimeZoneData(q))]

\* the table after the upsert of POST /users/:user_id/timezone
TimezoneWrite(table, q) ==
  Upsert(table, q.user_id, TimeZoneData(q), TimeZoneData(q))

\* prisma.user.upsert answers
TimezoneUpsert(p) ==
  /\ pc[p] = "upsert"
  /\ req[p].op = "setTimeZone"
  /\ DataAccepted(TimeZoneData(req[p]))
  /\ User' = TimezoneWrite(User, req[p])
  /\ nWr' = [nWr EXCEPT ![p] = @ + 1]
  /\ Finish(p, Send(response[p].status, response[p].data), "written")
  /\ UNCHANGED <<HealthData, req, answer, response, calls, cached, nUp>>

\* prisma.user.upsert throws
TimezoneUpsertError(p) ==
  /\ pc[p] = "upsert"
  /\ req[p].op = "setTimeZone"
  /\ nWr' = [nWr EXCEPT ![p] = @ + 1]
  /\ Fail(p, PrismaError, CatchSend(PrismaError), "store_error")
  /\ UNCHANGED <<User, HealthData, req, answer, response, calls, cached, nUp>>

(***************************************************************************)
(* GET /users/:user_id/info                                                *)
(***************************************************************************)
DOB2 == <<"1", "9", "8", "5", "-", "1", "2", "-", "3", "1">>

InfoReq(user_id, date) == [op |-> "getProfile", user_id |-> user_id, date |-> date]

InfoRequests == {InfoReq(u, d) : u \in UserIds, d \in {Undef, Str(D1)}}

InfoWithDob ==
  Obj([user_information |->
         Obj([user_demographics |-> Obj([date_of_birth_string |-> Str(DOB2)])])])
InfoWithoutDob == Obj([user_information |-> Obj([user_demographics |-> Obj(NoFields)])])
InfoWithoutDemographics == Obj([user_information |-> Obj([user_id |-> Str(U1)])])
InfoWithoutUser == Obj([data_structure |-> Str(<<"u", "s", "e", "r">>)])

\* bodies the provider can answer a user/info read with
InfoBodies ==
  {InfoWithDob, InfoWithoutDob, InfoWithoutDemographics, InfoWithoutUser, EmptyString, Null}

InfoReplies ==
  {[status |-> 200, data |-> d] : d \in InfoBodies}
    \cup {[status |-> 204, data |-> EmptyString]}
    \cup {[status |-> 404, data |-> Undef], NoReply}

\* a read of u1's profile without a date, answered with a date of birth or
\* with 404
StoredInfoRequests == {InfoReq(U1, Undef)}
DobReplies == {[status |-> 200, data |-> InfoWithDob], [status |-> 404, data |-> Undef]}

\* { data_structure: 'user_info', user_information: cached }
CachedInfo(row) ==
  Obj([data_structure |-> Str(<<"u", "s", "e", "r", "_", "i", "n", "f", "o">>),
       user_information |-> row])

\* variant: the handler asks the provider whatever the lookup found
InfoFindUniqueRefetch(p, q, found) ==
  /\ Accept(p, q)
  /\ cached' = [cached EXCEPT ![p] = found]
  /\ nUp' = [nUp EXCEPT ![p] = 0]
  /\ nWr' = [nWr EXCEPT ![p] = 0]
  /\ UNCHANGED <<User, HealthData>>
  /\ Await(p, "upstream", "miss")

\* the request arrives and prisma.user.findUnique answers
InfoFindUnique(p, q, found) ==
  /\ Accept(p, q)
  /\ cached' = [cached EXCEPT ![p] = found]
  /\ nUp' = [nUp EXCEPT ![p] = 0]
  /\ nWr' = [nWr EXCEPT ![p] = 0]
  /\ UNCHANGED <<User, HealthData>>
  /\ IF Truthy(found) /\ ~Truthy(q.date)
       THEN Finish(p, Send(200, CachedInfo(found)), "hit")
       ELSE Await(p, "upstream", "miss")

GetUserInfo(p, requests) ==
  /\ Free(p)
  /\ \E q \in requests : InfoFindUnique(p, q, FindUnique(User, q.user_id))

\* prisma.user.findUnique throws
GetUserInfoStoreError(p, requests) ==
  /\ Free(p)
  /\ \E q \in requests :
       /\ Accept(p, q)
       /\ StartCounters(p)
       /\ UNCHANGED <<User, HealthData>>
       /\ Fail(p, PrismaError, handleNoContent(PrismaError), "store_error")

\* response.data.user_information.user_demographics?.date_of_birth_string
DiscoveredDob(data) ==
  GetOpt(Get(Get(data, "user_information"), "user_demographics"), "date_of_birth_string")

\* the `update` of the upsert in GET /users/:user_id/info and, with the
\* user_id, its `create`
InfoData(data) == Obj([date_of_birth |-> DiscoveredDob(data)])

\* rookApi.get('/v2/processed_data/user/info') answers
InfoUpstreamReply(p, reply) ==
  /\ nUp' = [nUp EXCEPT ![p] = @ + 1]
  /\ answer' = [answer EXCEPT ![p] = reply]
  /\ UNCHANGED <<User, HealthData, req, calls, cached, nWr>>
  /\ IF ~Resolves(reply.status)
       THEN /\ Fail(p, AxiosError(reply), handleNoContent(AxiosError(reply)), "upstream_error")
            /\ UNCHANGED response
       ELSE /\ response' = [response EXCEPT ![p] = reply]
            /\ IF reply.data.t \in {"null", "undefined"}
                 THEN Fail(p, TypeError, handleNoContent(TypeError), "type_error")
                 ELSE IF Truthy(Get(reply.data, "user_information"))
                   THEN Await(p, "upsert", "miss")
                   ELSE Finish(p, Send(reply.status, reply.data), "passed")

InfoUpstream(p, replies) ==
  /\ pc[p] = "upstream"
  /\ req[p].op = "getProfile"
  /\ \E reply \in replies : InfoUpstreamReply(p, reply)

\* the table after the upsert of GET /users/:user_id/info
InfoWrite(table, user_id, data) ==
  Upsert(table, user_id, InfoData(data), InfoData(data))

\* prisma.user.upsert answers
InfoUpsert(p) ==
  /\ pc[p] = "upsert"
  /\ req[p].op = "getProfile"
  /\ DataAccepted(InfoData(response[p].data))
  /\ User' = InfoWrite(User, req[p].user_id, response[p].data)
  /\ nWr' = [nWr EXCEPT ![p] = @ + 1]
  /\ Finish(p, Send(response[p].status, response[p].data), "written")
  /\ UNCHANGED <<HealthData, req, answer, response, calls, cached, nUp>>

\* prisma.user.upsert throws
InfoUpsertError(p) ==
  /\ pc[p] = "upsert"
  /\ req[p].op = "getProfile"
  /\ nWr' = [nWr EXCEPT ![p] = @ + 1]
  /\ Fail(p, PrismaError, handleNoContent(PrismaError), "store_error")
  /\ UNCHANGED <<User, HealthData, req, answer, response, calls, cached, nUp>>

(***************************************************************************)
(* Specifications of the health-data routes: the provider answers a read   *)
(* with a score or fails (SpecSnapshot), or answers with any of the bodies *)
(* and statuses of SnapshotReplies (SpecSnapshotBodies).                   *)
(***************************************************************************)

Init ==
  /\ User = [u \in UserIds |-> NoRow]
  /\ HealthData = <<>>
  /\ pc = [p \in Procs |-> "idle"]
  /\ req = [p \in Procs |-> NoReq]
  /\ answer = [p \in Procs |-> NotAsked]
  /\ response = [p \in Procs |-> NoResponse]
  /\ cached = [p \in Procs |-> Null]
  /\ caught = [p \in Procs |-> NoError]
  /\ res = [p \in Procs |-> NoRes]
  /\ calls = 0
  /\ nUp = [p \in Procs |-> 0]
  /\ nWr = [p \in Procs |-> 0]
  /\ path = [p \in Procs |-> "none"]

NextSnapshot ==
  \E p \in Procs :
    \/ GetSnapshot(p, SnapshotRequests)
    \/ GetSnapshotStoreError(p, SnapshotRequests)
    \/ SnapshotUpstream(p, ScoreReplies)
    \/ SnapshotCreate(p)
    \/ SnapshotCreateError(p)

SpecSnapshot == Init /\ [][NextSnapshot]_vars

NextSnapshotBodies ==
  \E p \in Procs :
    \/ GetSnapshot(p, SnapshotRequests)
    \/ GetSnapshotStoreError(p, SnapshotRequests)
    \/ SnapshotUpstream(p, SnapshotReplies)
    \/ SnapshotCreate(p)
    \/ SnapshotCreateError(p)

SpecSnapshotBodies == Init /\ [][NextSnapshotBodies]_vars

(***************************************************************************)
(* Specifications of the user routes: the two POST routes with all their   *)
(* inputs beside reads of one stored profile (SpecUser), or the three      *)
(* routes with all their inputs (SpecProfile).                             *)
(***************************************************************************)
NextUser ==
  \E p \in Procs :
    \/ PostUsersInfo(p, ProfileBodies)
    \/ SubmitUpstream(p, PostReplies)
    \/ SubmitUpsert(p)
    \/ SubmitUpsertError(p)
    \/ PostTimezone(p, TimeZoneRequests)
    \/ TimezoneUpstream(p, PostReplies)
    \/ TimezoneUpsert(p)
    \/ TimezoneUpsertError(p)
    \/ GetUserInfo(p, StoredInfoRequests)
    \/ GetUserInfoStoreError(p, StoredInfoRequests)
    \/ InfoUpstream(p, DobReplies)
    \/ InfoUpsert(p)
    \/ InfoUpsertError(p)

SpecUser == Init /\ [][NextUser]_vars

NextProfile ==
  \E p \in Procs :
    \/ PostUsersInfo(p, ProfileBodies)
    \/ SubmitUpstream(p, PostReplies)
    \/ SubmitUpsert(p)
    \/ SubmitUpsertError(p)
    \/ PostTimezone(p, TimeZoneRequests)
    \/ TimezoneUpstream(p, PostReplies)
    \/ TimezoneUpsert(p)
    \/ TimezoneUpsertError(p)
    \/ GetUserInfo(p, InfoRequests)
    \/ GetUserInfoStoreError(p, InfoRequests)
    \/ InfoUpstream(p, InfoReplies)
    \/ InfoUpsert(p)
    \/ InfoUpsertError(p)

SpecProfile == Init /\ [][NextProfile]_vars

(***************************************************************************)
(* Specification of the whole server: requests of both kinds interleave.   *)
(***************************************************************************)
Next == NextSnapshotBodies \/ NextProfile

Spec == Init /\ [][Next]_vars

(***************************************************************************)
(* The whole server on a few requests of each kind (SpecServer): reads of  *)
(* the physical summary and of the steps events of one key, two valid      *)
(* profiles and an invalid one, two time zones, and reads of u1's profile  *)
(* that the provider answers with or without a date of birth, with a null *)
(* body, with 404 or not at all.                                           *)
(***************************************************************************)
ServerSnapshotRequests ==
  {SnapshotReq("physical_summary", "", Str(U1), Str(D1)),
   SnapshotReq("physical_events", "steps", Str(U1), Str(D1))}

ServerBodies ==
  {SampleUserInfo,
   Obj(Merge(Required(U1), [weight_kg_float |-> Num(750)])),
   Obj(Merge(Required(U1), [sex_string |-> Str(<<"o", "t", "h", "e", "r">>)]))}

ServerTimeZoneRequests ==
  {TimeZoneReq(U1, Str(NewYork), Str(Minus5)), TimeZoneReq(U2, Str(NewYork), Str(Minus5))}

ServerInfoReplies ==
  {[status |-> 200, data |-> InfoWithDob], [status |-> 200, data |-> InfoWithoutDob],
   [status |-> 200, data |-> Null], [status |-> 404, data |-> Undef], NoReply}

NextServer ==
  \E p \in Procs :
    \/ GetSnapshot(p, ServerSnapshotRequests)
    \/ GetSnapshotStoreError(p, ServerSnapshotRequests)
    \/ SnapshotUpstream(p, ScoreReplies)
    \/ SnapshotCreate(p)
    \/ SnapshotCreateError(p)
    \/ PostUsersInfo(p, ServerBodies)
    \/ SubmitUpstream(p, PostReplies)
    \/ SubmitUpsert(p)
    \/ SubmitUpsertError(p)
    \/ PostTimezone(p, ServerTimeZoneRequests)
    \/ TimezoneUpstream(p, PostReplies)
    \/ TimezoneUpsert(p)
    \/ TimezoneUpsertError(p)
    \/ GetUserInfo(p, StoredInfoRequests)
    \/ GetUserInfoStoreError(p, StoredInfoRequests)
    \/ InfoUpstream(p, ServerInfoReplies)
    \/ InfoUpsert(p)
    \/ InfoUpsertError(p)

SpecServer == Init /\ [][NextServer]_vars

(***************************************************************************)
(* The server under fair scheduling: every call to the provider and to the *)
(* store returns or fails in the end, and Node resumes the handler that    *)
(* awaits it.  One request of each kind, and for each call to the provider *)
(* the answers that lead the handler down its different paths: a health    *)
(* read is answered with a score, with an empty body, with 204, with 404   *)
(* or not at all.                                                          *)
(***************************************************************************)
PathSnapshotRequests == {SnapshotReq("physical_summary", "", Str(U1), Str(D1))}

PathReplies ==
  {[status |-> 200, data |-> ScoreA], [status |-> 200, data |-> Null],
   [status |-> 204, data |-> EmptyString], [status |-> 404, data |-> Undef], NoReply}

PathBodies ==
  {SampleUserInfo,
   Obj(Merge(Required(U1), [weight_kg_float |-> Num(750)])),
   Obj(Merge(Required(U1), [sex_string |-> Str(<<"o", "t", "h", "e", "r">>)]))}

PathPostReplies == {[status |-> 200, data |-> AckBody], [status |-> 400, data |-> Undef]}

PathTimeZoneRequests == {TimeZoneReq(U1, Str(NewYork), Str(Minus5))}

PathInfoReplies == {[status |-> 200, data |-> InfoWithDob], NoReply}

\* a request arrives
Arrival(p) ==
  \/ GetSnapshot(p, PathSnapshotRequests)
  \/ GetSnapshotStoreError(p, PathSnapshotRequests)
  \/ PostUsersInfo(p, PathBodies)
  \/ PostTimezone(p, PathTimeZoneRequests)
  \/ GetUserInfo(p, StoredInfoRequests)
  \/ GetUserInfoStoreError(p, StoredInfoRequests)

\* the call slot p's request waits for returns or fails, and the handler
\* runs on to its next call or to its response
Returns(p) ==
  \/ SnapshotUpstream(p, PathReplies)
  \/ SnapshotCreate(p)
  \/ SnapshotCreateError(p)
  \/ SubmitUpstream(p, PathPostReplies)
  \/ SubmitUpsert(p)
  \/ SubmitUpsertError(p)
  \/ TimezoneUpstream(p, PathPostReplies)
  \/ TimezoneUpsert(p)
  \/ TimezoneUpsertError(p)
  \/ InfoUpstream(p, PathInfoReplies)
  \/ InfoUpsert(p)
  \/ InfoUpsertError(p)

NextPaths == \E p \in Procs : Arrival(p) \/ Returns(p)

FairSpecPaths == Init /\ [][NextPaths]_vars /\ \A p \in Procs : WF_vars(Returns(p))

(***************************************************************************)
(* Properties of the health-data routes.                                   *)
(***************************************************************************)
\* the request has a user_id and a date
KeyGiven(q) == q.user_id.t = "string" /\ q.date.t = "string"

\* the ids of the rows stored under exactly this key
RowsOfKey(rows, user_id, data_type, date) ==
  {i \in 1..Len(rows) :
     rows[i].user_id = user_id /\ rows[i].data_type = data_type /\ rows[i].date = date}

Lowest(ids) == CHOOSE i \in ids : \A j \in ids : i <= j

\* slot p accepts a health-data request in this step
SnapshotArrives(p) ==
  /\ Free(p)
  /\ calls' = calls + 1
  /\ req'[p].op = "getSnapshot"
  /\ pc'[p] # "idle"
  /\ \A o \in Procs \ {p} : pc'[o] = pc[o]

\* slot p's create call inserts its row in this step
SnapshotInserts(p) ==
  /\ pc[p] = "create"
  /\ req[p].op = "getSnapshot"
  /\ Len(HealthData') = Len(HealthData) + 1
  /\ pc'[p] = "done"

\* C1: once a row is stored under a key, a later request for the key is
\* answered (unless the lookup itself throws) with the data of the first row
\* stored under it and without a call to the provider, whatever the provider
\* would answer now; that data is what the request that stored the row
\* answered with after its single provider call; and stored rows stay as
\* they are.
C1_CacheIdempotence ==
  [][\A p \in Procs :
       /\ ( /\ SnapshotArrives(p)
            /\ KeyGiven(req'[p])
            /\ RowsOfKey(HealthData, req'[p].user_id,
                 DataType(req'[p].route, req'[p].type), req'[p].date) # {}
            /\ path'[p] # "store_error" )
          => LET ids == RowsOfKey(HealthData, req'[p].user_id,
                          DataType(req'[p].route, req'[p].type), req'[p].date)
             IN /\ pc'[p] = "done"
                /\ res'[p] = [status |-> 200, body |-> HealthData[Lowest(ids)].data]
                /\ nUp'[p] = 0
                /\ HealthData' = HealthData
       /\ SnapshotInserts(p)
          => /\ res'[p] = [status |-> 200, body |-> HealthData'[Len(HealthData')].data]
             /\ nUp'[p] = 1
       /\ SubSeq(HealthData', 1, Len(HealthData)) = HealthData
    ]_vars

\* a second request was answered from the row the first one stored
C1_Witness ==
  \E p \in Procs :
    /\ calls = 2
    /\ pc[p] = "done"
    /\ path[p] = "hit"
    /\ KeyGiven(req[p])
    /\ nUp[p] = 0
    /\ Len(HealthData) = 1
    /\ res[p] = [status |-> 200, body |-> HealthData[1].data]
    /\ HealthData[1].user_id = req[p].user_id
    /\ HealthData[1].date = req[p].date

\* the forms an empty body can take
EmptyBodies == {EmptyString, Null, EmptyObject, EmptyArray}

\* C4: a health-data request that missed the store and got a success answer
\* with an empty body, in any of its forms, answers with that body and has
\* written no row.
C4_NoWriteOnEmptyBody ==
  \A p \in Procs :
    ( /\ pc[p] = "done"
      /\ req[p].op = "getSnapshot"
      /\ Resolves(answer[p].status)
      /\ answer[p].data \in EmptyBodies
      /\ path[p] # "store_error" )
    => /\ nWr[p] = 0
       /\ res[p].body = answer[p].data

\* C5: a health-data or user-info request that the provider answered with
\* 204 ends with status 204 and no body, and has written no row.
C5_NoContentPassthrough ==
  \A p \in Procs :
    ( /\ pc[p] = "done"
      /\ req[p].op \in {"getSnapshot", "getProfile"}
      /\ answer[p].status = 204 )
    => /\ res[p] = [status |-> 204, body |-> Undef]
       /\ nWr[p] = 0

\* category and subtype of a health-data request, as the caller names them
Category(q) ==
  CASE q.route \in {"physical_summary", "physical_events"} -> "physical"
    [] q.route = "sleep_summary" -> "sleep"
    [] q.route \in {"body_summary", "body_events"} -> "body"

Subtype(q) == IF q.route \in {"physical_events", "body_events"} THEN q.type ELSE ""

\* <category>_<subtype, or "summary" when there is none>
TagOf(q) == Category(q) \o "_" \o (IF Subtype(q) = "" THEN "summary" ELSE Subtype(q))

\* C6: a stored row is tagged <category>_<subtype or "summary"> of the
\* request that stored it; a request answered from the store is answered
\* from a row carrying its own tag; and a request whose tag no stored row
\* carries goes to the provider (unless the lookup itself throws).
C6_TagParameterization ==
  [][\A p \in Procs :
       /\ SnapshotInserts(p)
          => HealthData'[Len(HealthData')].data_type = TagOf(req[p])
       /\ (SnapshotArrives(p) /\ path'[p] = "hit")
          => /\ cached'[p].data_type = TagOf(req'[p])
             /\ res'[p].body = cached'[p].data
       /\ ( /\ SnapshotArrives(p)
            /\ \A i \in 1..Len(HealthData) : HealthData[i].data_type # TagOf(req'[p])
            /\ path'[p] # "store_error" )
          => pc'[p] = "upstream"
       /\ TagOf(SnapshotReq("physical_events", "steps", Str(U1), Str(D1))) = "physical_steps"
       /\ TagOf(SnapshotReq("body_events", "weight", Str(U1), Str(D1))) = "body_weight"
       /\ TagOf(SnapshotReq("sleep_summary", "", Str(U1), Str(D1))) = "sleep_summary"
    ]_vars

\* two rows of one user and one date under the tags physical_steps and
\* body_weight, each fetched from the provider
C6_Witness ==
  /\ Len(HealthData) = 2
  /\ HealthData[1].user_id = HealthData[2].user_id
  /\ HealthData[1].date = HealthData[2].date
  /\ {HealthData[1].data_type, HealthData[2].data_type} = {"physical_steps", "body_weight"}
  /\ \E p \in Procs : pc[p] = "done" /\ path[p] = "created" /\ nUp[p] = 1

\* an empty body and no body are the same answer
SameBody(a, b) == a = b \/ {a, b} \subseteq {Undef, EmptyString}

\* C9: a request that the provider answered with a success status, and
\* whose store write (if it made one) succeeded, ends with the provider's
\* status and the provider's body.
C9_SuccessPassthrough ==
  \A p \in Procs :
    ( /\ pc[p] = "done"
      /\ Resolves(answer[p].status)
      /\ path[p] # "store_error" )
    => /\ res[p].status = answer[p].status
       /\ SameBody(res[p].body, answer[p].data)

(***************************************************************************)
(* Properties of the user routes.                                          *)
(***************************************************************************)
\* the body field each column of a profile is submitted in
FieldOf ==
  [date_of_birth |-> "date_of_birth_string", height_cm |-> "height_cm_int",
   weight_kg |-> "weight_kg_float", bmi |-> "bmi_float", sex |-> "sex_string"]

\* the upsert of slot p's request succeeds in this step
Writes(p, op) ==
  /\ pc[p] = "upsert"
  /\ req[p].op = op
  /\ pc'[p] = "done"
  /\ path'[p] = "written"

\* the provider's answer to slot p's request arrives in this step
Answered(p, op) ==
  /\ req[p].op = op
  /\ answer[p] = NotAsked
  /\ answer'[p] # NotAsked

\* C2: when the upsert of an accepted submitProfile finds the user's row,
\* every column whose field is in the call takes the call's value and every
\* other column keeps its stored value, so no stored value becomes null;
\* the rows of other users stay as they are.
C2_MergeNotOverwrite ==
  [][\A p \in Procs :
       Writes(p, "submitProfile")
       => LET b == req[p].body.f
              u == b.user_id.s
          IN /\ Resolves(answer[p].status)
             /\ \A o \in UserIds \ {u} : User'[o] = User[o]
             /\ User'[u] # NoRow
             /\ User[u] # NoRow
                => /\ User'[u].user_id = User[u].user_id
                   /\ \A c \in Columns :
                        IF c \in DOMAIN FieldOf /\ FieldOf[c] \in DOMAIN b
                          THEN User'[u].col[c] = b[FieldOf[c]]
                          ELSE User'[u].col[c] = User[u].col[c]
    ]_vars

\* stored {height_cm: 180, sex: male} plus the call {weight_kg: 75}
C2_Witness ==
  \E p \in Procs :
    /\ pc[p] = "done"
    /\ path[p] = "written"
    /\ req[p] = [op |-> "submitProfile",
                 body |-> Obj(Merge(Required(U1), [weight_kg_float |-> Num(750)]))]
    /\ User[U1] # NoRow
    /\ User[U1].col.height_cm = Num(1800)
    /\ User[U1].col.sex = Str(Male)
    /\ User[U1].col.weight_kg = Num(750)

\* the status a rejected provider call is reported with
ReportedStatus(a) == IF a.status # 0 THEN a.status ELSE 500

IsErrorBody(b) == b.t = "object" /\ DOMAIN b.f = {"error"} /\ b.f.error # ""

\* C3: when the provider rejects a submitProfile call, the request ends at
\* once with the provider's status (500 when it sent none) and an error
\* message, the User table is as it was, and the request has written nothing.
C3_NoWriteOnRejection ==
  [][\A p \in Procs :
       (Answered(p, "submitProfile") /\ ~Resolves(answer'[p].status))
       => /\ User' = User
          /\ pc'[p] = "done"
          /\ nWr'[p] = 0
          /\ res'[p].status = ReportedStatus(answer'[p])
          /\ IsErrorBody(res'[p].body)
    ]_vars

\* a 400 for a call that would have set the weight of a stored profile
C3_Witness ==
  \E p \in Procs :
    /\ pc[p] = "done"
    /\ req[p] = [op |-> "submitProfile",
                 body |-> Obj(Merge(Required(U1), [weight_kg_float |-> Num(750)]))]
    /\ answer[p].status = 400
    /\ res[p].status = 400
    /\ User[U1] # NoRow
    /\ User[U1].col.weight_kg = Null
    /\ User[U1].col.height_cm = Num(1800)

IsDigits(v) == v.t = "string" /\ v.s # <<>> /\ \A i \in 1..Len(v.s) : v.s[i] \in Digits

\* the ways a payload fails validation
IllShaped(body) ==
  LET v(k) == Get(body, k)
  IN \/ v("user_id").t # "string"
     \/ ~MatchesUserId(v("user_id").s)
     \/ v("height_cm_int") # Undef
          /\ ~IsDigits(v("height_cm_int"))
          /\ ~(v("height_cm_int").t = "number" /\ v("height_cm_int").x10 % 10 = 0)
     \/ \E k \in {"weight_kg_float", "bmi_float"} :
          v(k) # Undef /\ v(k).t # "number" /\ ~IsDigits(v(k))
     \/ v("date_of_birth_string") # Undef
          /\ (v("date_of_birth_string").t # "string" \/ ~MatchesDate(v("date_of_birth_string").s))
     \/ v("sex_string") # Undef /\ v("sex_string") \notin {Str(Male), Str(Female)}

\* C7: a submitProfile request whose payload fails validation has ended
\* with status 422 and an error message, without a call to the provider and
\* without a store call.
C7_ValidationShortCircuit ==
  \A p \in Procs :
    (req[p].op = "submitProfile" /\ IllShaped(req[p].body))
    => /\ pc[p] = "done"
       /\ res[p].status = 422
       /\ IsErrorBody(res[p].body)
       /\ answer[p] = NotAsked
       /\ nUp[p] = 0
       /\ nWr[p] = 0

\* a payload whose sex is outside the enumerated set was refused
C7_Witness ==
  \E p \in Procs :
    /\ pc[p] = "done"
    /\ req[p].op = "submitProfile"
    /\ Get(req[p].body, "sex_string") = Str(<<"o", "t", "h", "e", "r">>)
    /\ res[p].status = 422
    /\ nUp[p] = 0

\* C8: a submitProfile request issues its store write only after the
\* provider has answered its call with a success status, and issues at most
\* one; the User table changes in no other step of the request.
C8_SubmitOrdering ==
  [][\A p \in Procs :
       req'[p].op = "submitProfile"
       => /\ nWr'[p] <= 1
          /\ nUp'[p] <= 1
          /\ (pc'[p] = "upsert" \/ nWr'[p] = 1)
             => (nUp'[p] = 1 /\ Resolves(answer'[p].status))
          /\ (pc'[p] # pc[p] /\ User' # User)
             => (pc[p] = "upsert" /\ nWr[p] = 0 /\ Resolves(answer[p].status))
    ]_vars

\* a submitProfile request wrote the store after the provider accepted it
C8_Witness ==
  \E p \in Procs :
    /\ pc[p] = "done"
    /\ req[p].op = "submitProfile"
    /\ path[p] = "written"
    /\ nUp[p] = 1
    /\ nWr[p] = 1
    /\ Resolves(answer[p].status)
    /\ User[Get(req[p].body, "user_id").s] # NoRow

\* C10: setTimeZone writes the store only after the provider accepted its
\* call; the upsert sets time_zone and offset as given and nothing else: on
\* a stored row the other columns keep their values, a new row has them
\* null; and when the provider rejects the call the table is as it was.
C10_TimeZoneUpsert ==
  [][\A p \in Procs :
       /\ Writes(p, "setTimeZone")
          => LET u == req[p].user_id
                 given == [time_zone |-> req[p].time_zone, offset |-> req[p].offset]
             IN /\ Resolves(answer[p].status)
                /\ nUp[p] = 1
                /\ \A o \in UserIds \ {u} : User'[o] = User[o]
                /\ User'[u] # NoRow
                /\ User'[u].user_id = Str(u)
                /\ \A c \in Columns \ {"time_zone", "offset"} :
                     User'[u].col[c] = IF User[u] = NoRow THEN Null ELSE User[u].col[c]
                /\ \A c \in {"time_zone", "offset"} :
                     User'[u].col[c] =
                       IF given[c] # Undef THEN given[c]
                       ELSE IF User[u] = NoRow THEN Null ELSE User[u].col[c]
       /\ (Answered(p, "setTimeZone") /\ ~Resolves(answer'[p].status))
          => (User' = User /\ pc'[p] = "done" /\ nWr'[p] = 0)
       /\ (req[p].op = "setTimeZone" /\ pc'[p] # pc[p] /\ User' # User)
          => pc[p] = "upsert"
    ]_vars

\* a time zone was set on a stored profile, which kept its height
C10_Witness ==
  \E p \in Procs :
    /\ pc[p] = "done"
    /\ req[p] = TimeZoneReq(U1, Str(NewYork), Str(Minus5))
    /\ path[p] = "written"
    /\ User[U1] # NoRow
    /\ User[U1].col.height_cm = Num(1800)
    /\ User[U1].col.time_zone = Str(NewYork)
    /\ User[U1].col.offset = Str(Minus5)

\* slot p accepts a request of operation op in this step
Arrives(p, op) ==
  /\ Free(p)
  /\ calls' = calls + 1
  /\ req'[p].op = op
  /\ pc'[p] # "idle"
  /\ \A o \in Procs \ {p} : pc'[o] = pc[o]

\* C11: a getProfile request without a date for a user whose row is stored
\* ends at once (unless the lookup itself throws) with status 200 and the
\* stored row, whatever its columns hold, without a call to the provider and
\* without a store write.
C11_StoredProfileServed ==
  [][\A p \in Procs :
       ( /\ Arrives(p, "getProfile")
         /\ ~Truthy(req'[p].date)
         /\ User[req'[p].user_id] # NoRow
         /\ path'[p] # "store_error" )
       => /\ pc'[p] = "done"
          /\ res'[p] = [status |-> 200, body |-> CachedInfo(User[req'[p].user_id])]
          /\ answer'[p] = NotAsked
          /\ nUp'[p] = 0
          /\ nWr'[p] = 0
          /\ User' = User
    ]_vars

\* a read without a date was answered with the row a submitProfile stored,
\* whose time zone is still null
C11_Witness ==
  \E p \in Procs :
    /\ pc[p] = "done"
    /\ req[p] = InfoReq(U1, Undef)
    /\ path[p] = "hit"
    /\ nUp[p] = 0
    /\ User[U1] # NoRow
    /\ User[U1].col.height_cm = Num(1800)
    /\ User[U1].col.time_zone = Null
    /\ res[p] = [status |-> 200, body |-> CachedInfo(User[U1])]

\* a step of slot p's getProfile request after its lookup
InfoStep(p) ==
  /\ req[p].op = "getProfile"
  /\ pc[p] \in {"upstream", "upsert"}
  /\ pc'[p] # pc[p]

\* C12: a getProfile request with a date, or for a user with no stored row,
\* goes to the provider (unless the lookup itself throws); a step of the
\* request changes the User table only when the provider's answer carries a
\* date of birth, and then sets date_of_birth to it and nothing else; an
\* answer without a date of birth leaves the table as it was; and the
\* request ends with the provider's status and payload.
C12_WriteBackOnlyDob ==
  [][\A p \in Procs :
       /\ ( /\ Arrives(p, "getProfile")
            /\ Truthy(req'[p].date) \/ User[req'[p].user_id] = NoRow
            /\ path'[p] # "store_error" )
          => (pc'[p] = "upstream" /\ User' = User)
       /\ InfoStep(p)
          => LET u == req[p].user_id
                 a == answer'[p]
                 dob == DiscoveredDob(a.data)
             IN /\ User' # User
                   => /\ Resolves(a.status)
                      /\ dob # Undef
                      /\ \A o \in UserIds \ {u} : User'[o] = User[o]
                      /\ User'[u].col.date_of_birth = dob
                      /\ \A c \in Columns \ {"date_of_birth"} :
                           User'[u].col[c] = IF User[u] = NoRow THEN Null ELSE User[u].col[c]
                /\ (Resolves(a.status) /\ dob = Undef) => User' = User
                /\ path'[p] \in {"written", "passed"}
                   => /\ res'[p].status = a.status
                      /\ SameBody(res'[p].body, a.data)
    ]_vars

(***************************************************************************)
(* Properties of the server as a whole.                                    *)
(***************************************************************************)
\* the store write of slot p's request throws in this step
StoreWriteFails(p) ==
  /\ pc[p] \in {"create", "upsert"}
  /\ pc'[p] # pc[p]
  /\ caught'[p] = PrismaError

\* C13: when the store write of a request throws, after the provider
\* answered its one call with a success status, the request ends with
\* status 500 and an error message, not with the provider's body; the write
\* is not tried again and both tables are as they were.
C13_StoreFailureSurfaced ==
  [][\A p \in Procs :
       StoreWriteFails(p)
       => /\ Resolves(answer[p].status)
          /\ pc'[p] = "done"
          /\ res'[p].status = 500
          /\ IsErrorBody(res'[p].body)
          /\ res'[p].body # answer[p].data
          /\ nUp'[p] = 1
          /\ nWr'[p] = 1
          /\ User' = User
          /\ HealthData' = HealthData
    ]_vars

\* the create of a health-data request threw after the provider had
\* answered 200 with a score
C13_Witness ==
  \E p \in Procs :
    /\ pc[p] = "done"
    /\ req[p].op = "getSnapshot"
    /\ answer[p] = [status |-> 200, data |-> ScoreA]
    /\ caught[p] = PrismaError
    /\ nWr[p] = 1
    /\ res[p].status = 500
    /\ HealthData = <<>>

\* the provider rejected slot p's call with a status
Rejected(p) == answer[p].status > 0 /\ ~Resolves(answer[p].status)

\* slot p's request failed: its catch block caught an error, or the
\* provider rejected or did not answer its call
Failed(p) ==
  \/ caught[p] # NoError
  \/ answer[p] # NotAsked /\ ~Resolves(answer[p].status)

\* C14: a request that failed, other than by validation, has ended with the
\* provider's status when the provider rejected its call with one and with
\* 500 otherwise (no answer, a store call that threw, an error of the
\* handler itself), and with a body that carries a message.
C14_ErrorClassification ==
  \A p \in Procs :
    (pc[p] = "done" /\ Failed(p))
    => /\ res[p].status = IF Rejected(p) THEN answer[p].status ELSE 500
       /\ IsErrorBody(res[p].body)
       /\ caught[p] # NoError

\* a read of a profile that the provider rejected with 404 beside a request
\* whose call got no answer or whose store call threw
C14_Witness ==
  \E p, o \in Procs :
    /\ pc[p] = "done" /\ pc[o] = "done"
    /\ req[p].op = "getProfile"
    /\ answer[p].status = 404
    /\ res[p].status = 404
    /\ IsErrorBody(res[p].body)
    /\ ~Rejected(o) /\ Failed(o)
    /\ res[o].status = 500

(***************************************************************************)
(* Properties of concurrent health-data requests.                          *)
(***************************************************************************)
\* the key of a health-data request
KeyOf(q) == <<q.user_id, DataType(q.route, q.type), q.date>>

\* slot p's health-data request missed the store, got a success answer with
\* data from the provider and ended without an error
MissServed(p) ==
  /\ pc[p] = "done"
  /\ req[p].op = "getSnapshot"
  /\ cached[p] = Null
  /\ Resolves(answer[p].status)
  /\ Truthy(answer[p].data)
  /\ caught[p] = NoError

\* C15: two health-data requests for one key that both missed the store and
\* both got data from the provider have each called the provider once and
\* each inserted a row: the table holds two rows under the key.
C15_NoDeduplication ==
  \A p, o \in Procs :
    (p # o /\ MissServed(p) /\ MissServed(o) /\ KeyOf(req[p]) = KeyOf(req[o]))
    => /\ nUp[p] = 1 /\ nUp[o] = 1
       /\ nWr[p] = 1 /\ nWr[o] = 1
       /\ Cardinality(RowsOfKey(HealthData, req[p].user_id,
            DataType(req[p].route, req[p].type), req[p].date)) >= 2

\* two rows are stored under one key, inserted by two requests that
\* overlapped
C15_Witness ==
  /\ Len(HealthData) = 2
  /\ HealthData[1].user_id = HealthData[2].user_id
  /\ HealthData[1].data_type = HealthData[2].data_type
  /\ HealthData[1].date = HealthData[2].date
  /\ \E p, o \in Procs :
       /\ p # o
       /\ MissServed(p) /\ nUp[p] = 1 /\ nWr[p] = 1
       /\ MissServed(o) /\ nUp[o] = 1 /\ nWr[o] = 1
       /\ KeyOf(req[p]) = KeyOf(req[o])

\* C16: the HealthData table changes only by one row being appended, by a
\* health-data request that missed the store and got a success answer with
\* a non-empty body from the provider, the row carrying the request's key
\* and that body; the rows stored before stay as they are; and a request
\* whose provider call fails ends without a write.
C16_SnapshotLifecycle ==
  [][/\ Len(HealthData') >= Len(HealthData)
     /\ SubSeq(HealthData', 1, Len(HealthData)) = HealthData
     /\ HealthData' # HealthData
        => /\ Len(HealthData') = Len(HealthData) + 1
           /\ \E p \in Procs :
                /\ req[p].op = "getSnapshot"
                /\ pc[p] = "create" /\ pc'[p] = "done"
                /\ cached[p] = Null
                /\ Resolves(answer[p].status)
                /\ answer[p].data \notin EmptyBodies \cup {Undef}
                /\ HealthData'[Len(HealthData')] =
                     NewRow(HealthData, req[p].user_id, TagOf(req[p]), req[p].date,
                            answer[p].data)
     /\ \A p \in Procs :
          (Answered(p, "getSnapshot") /\ ~Resolves(answer'[p].status))
          => (HealthData' = HealthData /\ pc'[p] = "done" /\ nWr'[p] = 0)
    ]_vars

(***************************************************************************)
(* Lifecycle of the rows of the User table.                                *)
(***************************************************************************)
\* the user a request of the user routes is about
UserOf(q) == IF q.op = "submitProfile" THEN q.body.f.user_id.s ELSE q.user_id

\* the upsert of a request of slot p for user u, of one of the operations
\* ops, succeeds in this step, after the provider accepted the request's call
UpsertBy(p, u, ops) ==
  /\ req[p].op \in ops
  /\ pc[p] = "upsert" /\ pc'[p] = "done"
  /\ caught'[p] = NoError
  /\ Resolves(answer[p].status)
  /\ UserOf(req[p]) = u

\* a stored row stays stored, under its user_id
RowsStay == \A u \in UserIds : User[u] # NoRow => User'[u] # NoRow /\ User'[u].user_id = User[u].user_id

\* C17 as claimed: a row of the User table appears only in the upsert of a
\* submitProfile or setTimeZone request that the provider accepted, for a
\* user with no row; and a stored row is never removed.
C17_ProfileLifecycle ==
  [][/\ \A u \in UserIds :
          (User[u] = NoRow /\ User'[u] # NoRow)
          => \E p \in Procs : UpsertBy(p, u, {"submitProfile", "setTimeZone"})
     /\ RowsStay
    ]_vars

\* C17 as amended: a row of the User table appears only in the upsert of a
\* submitProfile or setTimeZone request that the provider accepted, or of a
\* getProfile request that the provider answered with user information, for
\* a user with no row; and a stored row is never removed.
C17_ProfileLifecycleAmended ==
  [][/\ \A u \in UserIds :
          (User[u] = NoRow /\ User'[u] # NoRow)
          => \E p \in Procs :
               /\ UpsertBy(p, u, {"submitProfile", "setTimeZone", "getProfile"})
               /\ req[p].op = "getProfile" => Truthy(Get(answer[p].data, "user_information"))
               /\ User'[u].user_id = Str(u)
     /\ RowsStay
    ]_vars

\* a read of a profile stored the row of a user who had none, and a time
\* zone was then set on that row
C17_Witness ==
  \E p \in Procs :
    /\ pc[p] = "done"
    /\ req[p] = TimeZoneReq(U1, Str(NewYork), Str(Minus5))
    /\ path[p] = "written"
    /\ User[U1] # NoRow
    /\ User[U1].col.date_of_birth = Str(DOB2)
    /\ User[U1].col.time_zone = Str(NewYork)
    /\ User[U1].col.height_cm = Null

(***************************************************************************)
(* Properties of the lookup of the health-data routes.                     *)
(***************************************************************************)
\* slot p's health-data request was answered from the store
ServedFromStore(p) ==
  /\ pc[p] = "done"
  /\ req[p].op = "getSnapshot"
  /\ Truthy(cached[p])

\* C18: a health-data request answered from the store was answered with the
\* data of a row whose user_id, data_type and date are those of the request,
\* also when the request came without a user_id or without a date.
C18_ExactKeyLookup ==
  \A p \in Procs :
    ServedFromStore(p)
    => /\ res[p].body = cached[p].data
       /\ cached[p].user_id = req[p].user_id
       /\ cached[p].data_type = TagOf(req[p])
       /\ cached[p].date = req[p].date

\* the provider path a health-data request reads on a miss
PathOf(q) == ResourcePath(q.route, q.type)

\* slot o's request fetched and stored the one row of the table
StoredTheRow(o) ==
  /\ pc[o] = "done"
  /\ req[o].op = "getSnapshot"
  /\ cached[o] = Null
  /\ caught[o] = NoError
  /\ nWr[o] = 1
  /\ Len(HealthData) = 1

\* C19: two health-data requests that read different provider paths carry
\* different data_type tags, and a request answered from the store is
\* answered with data that was fetched from the path it would have read
\* itself.
C19_DistinctShapesDistinctTags ==
  [][\A p, o \in Procs :
       /\ (req[p].op = "getSnapshot" /\ req[o].op = "getSnapshot" /\ PathOf(req[p]) # PathOf(req[o]))
          => DataType(req[p].route, req[p].type) # DataType(req[o].route, req[o].type)
       /\ (SnapshotArrives(p) /\ path'[p] = "hit" /\ StoredTheRow(o))
          => PathOf(req[o]) = PathOf(req'[p])
    ]_vars

\* slot p's health-data request for a full key was answered with data
CarriesData(p) ==
  /\ pc[p] = "done"
  /\ req[p].op = "getSnapshot"
  /\ KeyGiven(req[p])
  /\ caught[p] = NoError
  /\ Truthy(res[p].body)

\* C20: all health-data requests for one key that were answered with data
\* were answered with the same data, whether from the store or from the
\* provider and however they overlapped.
C20_BenignDuplication ==
  \A p, o \in Procs :
    (CarriesData(p) /\ CarriesData(o) /\ KeyOf(req[p]) = KeyOf(req[o]))
    => res[p].body = res[o].body

(***************************************************************************)
(* Properties of every request.                                            *)
(***************************************************************************)
\* C21: a request issues at most one call to the provider and at most one
\* store write; the provider's answer to its call is final; and a request
\* whose provider call or store call failed ends in that step, so the call
\* is not repeated.
C21_NoRetries ==
  [][\A p \in Procs :
       /\ nUp'[p] <= 1
       /\ nWr'[p] <= 1
       /\ (calls' = calls /\ answer[p] # NotAsked) => answer'[p] = answer[p]
       /\ (calls' = calls /\ caught'[p] # NoError) => pc'[p] = "done"
       /\ (calls' = calls /\ answer'[p] # NotAsked /\ ~Resolves(answer'[p].status))
          => (pc'[p] = "done" /\ nWr'[p] = 0)
       /\ (calls' = calls /\ pc[p] = "done")
          => (nUp'[p] = nUp[p] /\ nWr'[p] = nWr[p] /\ res'[p] = res[p])
    ]_vars

\* one request ended when the provider rejected its only call, another when
\* its only store write threw
C21_Witness ==
  \E p, o \in Procs :
    /\ pc[p] = "done" /\ pc[o] = "done"
    /\ answer[p].status = 400 /\ nUp[p] = 1 /\ nWr[p] = 0
    /\ Resolves(answer[o].status) /\ caught[o] = PrismaError /\ nUp[o] = 1 /\ nWr[o] = 1

\* the rows of the User table
StoredRows == {User[u] : u \in {v \in UserIds : User[v] # NoRow}}

BothWrote(p, o) ==
  /\ calls = 2
  /\ pc[p] = "done" /\ pc[o] = "done"
  /\ req[p].op = "submitProfile" /\ req[o].op = "setTimeZone"
  /\ path[p] = "written" /\ path[o] = "written"
  /\ Resolves(answer[p].status) /\ Resolves(answer[o].status)
  /\ UserOf(req[p]) = UserOf(req[o])

\* C23: when a submitProfile and a setTimeZone request for one user overlap,
\* the provider accepts both and both upserts succeed, the user's row holds
\* the profile fields of the one and the time_zone and offset of the other,
\* whichever upsert ran first.
C23_DisjointWritersKeepBoth ==
  \A p, o \in Procs :
    BothWrote(p, o) =>
      LET row == User[UserOf(req[p])]
          update == SubmitUpdate(req[p].body)
      IN /\ row # NoRow
         /\ \A c \in DOMAIN FieldOf :
              row.col[c] = IF Get(update, c) = Undef THEN Null ELSE Get(update, c)
         /\ \A c \in {"time_zone", "offset"} :
              row.col[c] = IF Get(TimeZoneData(req[o]), c) = Undef THEN Null
                           ELSE Get(TimeZoneData(req[o]), c)

\* the two overlapped, wrote, and the row holds a height and a time zone
C23_Witness ==
  \E p, o \in Procs :
    /\ BothWrote(p, o)
    /\ req[p].body = SampleUserInfo
    /\ User[U1] # NoRow
    /\ User[U1].col["height_cm"] = Num(1750)
    /\ User[U1].col["time_zone"] = Str(NewYork)


\* slots p and o hold the only two requests made, submitProfile requests for
\* one user that give different values for column c and overlap
TwoSubmits(p, o, c) ==
  /\ calls = 2
  /\ p # o
  /\ req[p].op = "submitProfile" /\ req[o].op = "submitProfile"
  /\ ~userSchemaValidate(req[p].body).error
  /\ ~userSchemaValidate(req[o].body).error
  /\ UserOf(req[p]) = UserOf(req[o])
  /\ Get(SubmitUpdate(req[p].body), c) # Undef
  /\ Get(SubmitUpdate(req[o].body), c) # Undef
  /\ Get(SubmitUpdate(req[p].body), c) # Get(SubmitUpdate(req[o].body), c)

\* the provider has accepted the request of slot o and not yet answered the
\* one of slot p: if it accepts that one, it accepts it last
AcceptedFirst(o, p) ==
  /\ pc[o] = "upsert" /\ Resolves(answer[o].status)
  /\ pc[p] = "upstream" /\ answer[p] = NotAsked

\* both requests were accepted, written to the store and answered
BothSubmitted(p, o) ==
  /\ pc[p] = "done" /\ pc[o] = "done"
  /\ path[p] = "written" /\ path[o] = "written"

\* C24: when two overlapping submitProfile requests for one user give
\* different values for a field and the provider accepts both, the one of
\* slot p last, then once both have written the store and completed the
\* stored value of the field is the one slot p submitted.
C24_StoreAgreesWithUpstream ==
  \A p, o \in Procs : \A c \in DOMAIN FieldOf :
    []((TwoSubmits(p, o, c) /\ AcceptedFirst(o, p))
         => []((TwoSubmits(p, o, c) /\ BothSubmitted(p, o))
                 => User[UserOf(req[p])].col[c] = Get(SubmitUpdate(req[p].body), c)))


\* the handler of slot p's request has ended and has sent a response
Completed(p) == pc[p] = "done" /\ res[p] # NoRes

\* C25: when every call to the provider and to the store returns or fails,
\* every request is answered in the end, whatever path it takes; it has sent
\* nothing before its handler ends, has sent a status when it ends, and what
\* it sent stays as it is until the next request arrives.
C25_EveryRequestCompletes ==
  /\ \A p \in Procs : (pc[p] \notin {"idle", "done"}) ~> Completed(p)
  /\ [][\A p \in Procs :
          /\ pc'[p] \notin {"idle", "done"} => res'[p] = NoRes
          /\ pc'[p] = "done" => (res'[p] # NoRes /\ res'[p].status \in 100..599)
          /\ (pc[p] = "done" /\ calls' = calls) => (pc'[p] = "done" /\ res'[p] = res[p])
       ]_vars

\* two overlapping requests have completed, one whose store call failed and
\* one the provider answered without a body
C25_Witness ==
  \E p, o \in Procs :
    /\ Completed(p) /\ Completed(o)
    /\ calls = 2
    /\ path[p] = "store_error" /\ res[p].status = 500
    /\ path[o] = "empty" /\ answer[o].status = 204 /\ res[o].status = 200

====
